---- MODULE Spec2Model ----
(***************************************************************************)
(* fastq_demux: demultiplexing of FASTQ reads by barcode.                  *)
(*                                                                         *)
(* Strings are modelled as sequences of one-character strings, so that     *)
(* str.split("+"), "+".join(...) and zip(str1, str2) are computed as the   *)
(* code computes them.                                                     *)
(***************************************************************************)
EXTENDS Integers, Sequences, FiniteSets, TLC

VARIABLES
    barcode_to_sample_mapping,  \* DemultiplexResults.barcode_to_sample_mapping: barcode -> sample id
    mismatches,                 \* FastqDemultiplexer.mismatches
    engine,                     \* the class of the demultiplexer instance
    fastq_file_writers,         \* FastqFileWriterHandler.fastq_file_writers: barcode -> what was written
    barcode_counts,             \* DemultiplexResults.barcode_counts (a Counter)
    barcode_mismatches_count,   \* DemultiplexResults.barcode_mismatches_count: barcode -> Counter
    mismatched_barcodes,        \* FastqDemultiplexer.mismatched_barcodes (the resolution cache)
    status,                     \* where demultiplex() is: "running", "done" or the error that ended it
    nlines,                     \* the number of lines of each opened input file
    pos,                        \* the number of lines consumed from each file handle
    pstate,                     \* where the fastq_records() generator is
    yielded,                    \* the elements fastq_records() has yielded so far
    call,                       \* the last call made: its argument and outcome
    cli                         \* the command line and the exit of the entry point

vars == << barcode_to_sample_mapping, mismatches, engine, fastq_file_writers,
           barcode_counts, barcode_mismatches_count, mismatched_barcodes, status,
           nlines, pos, pstate, yielded, call, cli >>

(***************************************************************************)
(* Bounds of the model.                                                    *)
(***************************************************************************)
MaxKnown == 3
MaxMismatches == 2
MaxRecords == 2

(***************************************************************************)
(* The strings the inputs are drawn from.                                  *)
(***************************************************************************)
KnownSegments ==
    { <<"A", "A">>, <<"A", "B">>, <<"B", "B">> }

\* an observed index read may differ from every known segment, and may be shorter
ObservedSegments ==
    KnownSegments \cup { <<"B", "A">>, <<"A">> }

Samples == { "S1", "S2" }

\* --unknown-barcode, default "Unknown"
UnknownBarcode == << "U" >>

\* the sample id the entry point registers the unknown barcode under
UnknownSample == "barcode"

Min(a, b) == IF a < b THEN a ELSE b
\* max that gives its second argument
Max_KeepsSecond(a, b) == b

Max(a, b) == IF a > b THEN a ELSE b

RECURSIVE SumOver(_, _)
SumOver(f, S) ==
    IF S = {} THEN 0
    ELSE LET x == CHOOSE y \in S : TRUE
         IN f[x] + SumOver(f, S \ {x})

\* Counter.__getitem__: a missing key counts 0
CounterGet(c, key) == IF key \in DOMAIN c THEN c[key] ELSE 0

\* Counter[key] += n
CounterAdd(c, key, n) ==
    [x \in (DOMAIN c) \cup {key} |-> IF x = key THEN CounterGet(c, key) + n ELSE c[x]]

EmptyMap == [x \in {} |-> 0]

(***************************************************************************)
(* str.split("+") and "+".join(list)                                       *)
(***************************************************************************)
RECURSIVE split(_)
split(s) ==
    IF \A i \in 1..Len(s) : s[i] # "+" THEN << s >>
    ELSE LET i == CHOOSE j \in 1..Len(s) :
                      s[j] = "+" /\ \A h \in 1..(j - 1) : s[h] # "+"
         IN << SubSeq(s, 1, i - 1) >> \o split(SubSeq(s, i + 1, Len(s)))

RECURSIVE join(_)
join(parts) ==
    IF Len(parts) = 0 THEN << >>
    ELSE IF Len(parts) = 1 THEN parts[1]
    ELSE parts[1] \o << "+" >> \o join(Tail(parts))

\* the rows of the sample sheet in some order: list(mapping.keys())
RECURSIVE KeyList(_)
KeyList(S) ==
    IF S = {} THEN << >>
    ELSE LET x == CHOOSE y \in S : TRUE
         IN << x >> \o KeyList(S \ {x})

(***************************************************************************)
(* FastqMismatchDemultiplexer                                              *)
(***************************************************************************)
\* hamming_distance with the positions the longer string has more counted as differences
hamming_distance_CountsLength(str1, str2) ==
    Cardinality({ i \in 1..Min(Len(str1), Len(str2)) : str1[i] # str2[i] })
        + Max(Len(str1), Len(str2)) - Min(Len(str1), Len(str2))

hamming_distance(str1, str2) ==
    Cardinality({ i \in 1..Min(Len(str1), Len(str2)) : str1[i] # str2[i] })

\* ScanDistances without the ambiguity check: the first of the tied segments is returned
RECURSIVE ScanDistances_FirstOfTied(_, _, _, _)
ScanDistances_FirstOfTied(known_barcodes, distances, no_mm, k) ==
    IF ~(no_mm < k) THEN [raised |-> "none", mk |-> << >>, d |-> -1]
    ELSE LET n == no_mm + 1
             at == { x \in 1..Len(distances) : distances[x] = n }
         IN IF at = {} THEN ScanDistances_FirstOfTied(known_barcodes, distances, n, k)
            ELSE LET i == CHOOSE x \in at : \A y \in at : x <= y
                 IN [raised |-> "none", mk |-> known_barcodes[i], d |-> n]

\* ScanDistances in which a tie is passed over as if nothing had matched at that
\* distance (the raise caught by the except clause of the loop)
RECURSIVE ScanDistances_SkipsTie(_, _, _, _)
ScanDistances_SkipsTie(known_barcodes, distances, no_mm, k) ==
    IF ~(no_mm < k) THEN [raised |-> "none", mk |-> << >>, d |-> -1]
    ELSE LET n == no_mm + 1
             at == { x \in 1..Len(distances) : distances[x] = n }
         IN IF at = {} \/ Cardinality({ known_barcodes[x] : x \in at }) > 1
            THEN ScanDistances_SkipsTie(known_barcodes, distances, n, k)
            ELSE LET i == CHOOSE x \in at : \A y \in at : x <= y
                 IN [raised |-> "none", mk |-> known_barcodes[i], d |-> n]

\* the while loop of match_mismatched_single_barcode, entered with no_mm
RECURSIVE ScanDistances(_, _, _, _)
ScanDistances(known_barcodes, distances, no_mm, k) ==
    IF ~(no_mm < k) THEN [raised |-> "none", mk |-> << >>, d |-> -1]
    ELSE LET n == no_mm + 1
             at == { x \in 1..Len(distances) : distances[x] = n }
         IN IF at = {} THEN ScanDistances(known_barcodes, distances, n, k)
            ELSE IF Cardinality(at) > 1
                    /\ Cardinality({ known_barcodes[x] : x \in at }) > 1
                 THEN [raised |-> "ambiguous", mk |-> << >>, d |-> n]
                 ELSE LET i == CHOOSE x \in at : \A y \in at : x <= y
                      IN [raised |-> "none", mk |-> known_barcodes[i], d |-> n]

\* match_mismatched_single_barcode with no_mm starting at 0: distance 0 is never tried
match_mismatched_single_barcode_From1(barcode, known_barcodes, k) ==
    LET distances == [x \in 1..Len(known_barcodes) |->
                          hamming_distance(known_barcodes[x], barcode)]
    IN ScanDistances(known_barcodes, distances, 0, k)

match_mismatched_single_barcode(barcode, known_barcodes, k) ==
    LET distances == [x \in 1..Len(known_barcodes) |->
                          hamming_distance(known_barcodes[x], barcode)]
    IN ScanDistances(known_barcodes, distances, -1, k)

\* the known segments at position ix: [k.split("+")[ix] for k in keys if k != unknown_barcode]
KnownAt(keys, ix) ==
    LET ks == SelectSeq(keys, LAMBDA key : key # UnknownBarcode)
    IN IF \E x \in 1..Len(ks) : Len(split(ks[x])) < ix
       THEN [raised |-> "index", list |-> << >>]
       ELSE [raised |-> "none", list |-> [x \in 1..Len(ks) |-> split(ks[x])[ix]]]

\* the for loop of match_mismatched_barcode over the segments from position ix on
RECURSIVE MatchSegments(_, _, _, _, _, _)
MatchSegments(segs, keys, k, ix, matched_key, distance) ==
    IF ix > Len(segs) THEN [raised |-> "none", matched_key |-> matched_key, distance |-> distance]
    ELSE LET known == KnownAt(keys, ix)
         IN IF known.raised # "none"
            THEN [raised |-> known.raised, matched_key |-> matched_key, distance |-> distance]
            ELSE LET r == match_mismatched_single_barcode(segs[ix], known.list, k)
                 IN IF r.raised # "none"
                    THEN [raised |-> r.raised, matched_key |-> matched_key, distance |-> distance]
                    ELSE MatchSegments(segs, keys, k, ix + 1,
                                       Append(matched_key, r.mk), Max(r.d, distance))

\* match_mismatched_barcode that leaves counted_barcode and distance as matched
match_mismatched_barcode_KeepsPartial(barcode, mapping, k) ==
    LET keys == KeyList(DOMAIN mapping)
        m == MatchSegments(split(barcode), keys, k, 1, << >>, 0)
        matched_barcode == join(m.matched_key)
    IN IF m.raised # "none" THEN [raised |-> m.raised, entry |-> << >>]
       ELSE IF matched_barcode \notin DOMAIN mapping
            THEN [raised |-> "none", entry |-> << UnknownBarcode, m.distance, matched_barcode >>]
            ELSE [raised |-> "none", entry |-> << matched_barcode, m.distance, matched_barcode >>]

\* the entry match_mismatched_barcode stores for barcode, or the exception it raises
match_mismatched_barcode(barcode, mapping, k) ==
    LET keys == KeyList(DOMAIN mapping)
        m == MatchSegments(split(barcode), keys, k, 1, << >>, 0)
        matched_barcode == join(m.matched_key)
    IN IF m.raised # "none" THEN [raised |-> m.raised, entry |-> << >>]
       ELSE IF matched_barcode \notin DOMAIN mapping
            THEN [raised |-> "none", entry |-> << UnknownBarcode, 0, barcode >>]
            ELSE [raised |-> "none", entry |-> << matched_barcode, m.distance, matched_barcode >>]

(***************************************************************************)
(* FastqFileParser                                                         *)
(***************************************************************************)
MaxLines == 8

\* create_fastq_file_parser: the class chosen for the supplied files
create_fastq_file_parser(files) ==
    IF "I1" \notin files THEN "FastqFileParserHeaderIndex"
    ELSE IF "I2" \notin files THEN "FastqFileParserI1"
    ELSE "FastqFileParserI2"

\* get_file_handles: the read handles and the index handles, in the order they are opened
read_handles(files) ==
    IF "R2" \in files THEN << "R1", "R2" >> ELSE << "R1" >>

index_handles(files) ==
    IF create_fastq_file_parser(files) = "FastqFileParserHeaderIndex" THEN << >>
    ELSE IF create_fastq_file_parser(files) = "FastqFileParserI1" THEN << "I1" >>
    ELSE << "I1", "I2" >>

get_file_handles(files) == read_handles(files) \o index_handles(files)

\* record_from_handle with three lines taken for a read
record_from_handle_ThreeLines(p, n, h) ==
    IF n[h] - p[h] >= 3
    THEN [stop |-> FALSE, pos |-> [p EXCEPT ![h] = p[h] + 3]]
    ELSE [stop |-> TRUE, pos |-> [p EXCEPT ![h] = n[h]]]

\* record_from_handle: four next(handle); a handle that runs out raises StopIteration
\* and the lines it gave before that are gone
record_from_handle(p, n, h) ==
    IF n[h] - p[h] >= 4
    THEN [stop |-> FALSE, pos |-> [p EXCEPT ![h] = p[h] + 4]]
    ELSE [stop |-> TRUE, pos |-> [p EXCEPT ![h] = n[h]]]

\* records_from_handles: the handles are read in order, each from where it is
RECURSIVE records_from_handles(_, _, _, _)
records_from_handles(p, n, handles, j) ==
    IF j > Len(handles) THEN [stop |-> FALSE, pos |-> p]
    ELSE LET r == record_from_handle(p, n, handles[j])
         IN IF r.stop THEN r
            ELSE records_from_handles(r.pos, n, handles, j + 1)

\* _ensure_generator_empty: next(gen) consumes a line of a handle that is not empty
_ensure_generator_empty(p, n, h) == p[h] = n[h]

\* ensure_filehandles_empty: all([...]) of a list, so every handle is asked
ensure_filehandles_empty(p, n, handles) ==
    [empty |-> \A j \in 1..Len(handles) : _ensure_generator_empty(p, n, handles[j]),
     pos |-> [h \in DOMAIN p |->
                 IF _ensure_generator_empty(p, n, h) THEN p[h] ELSE p[h] + 1]]

\* fastq_records() that compares the lengths of the files before it yields
fastq_records_ChecksLengthsFirst(p, n) ==
    LET handles == get_file_handles(DOMAIN n)
        r == records_from_handles(p, n, handles, 1)
        e == ensure_filehandles_empty(r.pos, n, handles)
    IN IF \E g, h \in DOMAIN n : n[g] # n[h]
       THEN [outcome |-> "error", pos |-> p, element |-> p]
       ELSE IF ~r.stop THEN [outcome |-> "yield", pos |-> r.pos, element |-> p]
       ELSE IF e.empty THEN [outcome |-> "exhausted", pos |-> e.pos, element |-> p]
       ELSE [outcome |-> "error", pos |-> e.pos, element |-> p]

\* one next() of the generator fastq_records(): the element it yields (the first
\* line of every handle's read), or how it ends
fastq_records(p, n) ==
    LET handles == get_file_handles(DOMAIN n)
        r == records_from_handles(p, n, handles, 1)
        e == ensure_filehandles_empty(r.pos, n, handles)
    IN IF ~r.stop THEN [outcome |-> "yield", pos |-> r.pos, element |-> p]
       ELSE IF e.empty THEN [outcome |-> "exhausted", pos |-> e.pos, element |-> p]
       ELSE [outcome |-> "error", pos |-> e.pos, element |-> p]

\* the characters str.strip() removes
Whitespace == { " ", "\t", "\n", "\r" }

\* str.strip(): the string without the whitespace at its two ends
RECURSIVE strip(_)
strip(s) ==
    IF Len(s) > 0 /\ s[1] \in Whitespace THEN strip(Tail(s))
    ELSE IF Len(s) > 0 /\ s[Len(s)] \in Whitespace THEN strip(SubSeq(s, 1, Len(s) - 1))
    ELSE s

\* str.split(":"): the fields between the colons, an empty field included
RECURSIVE split_colon(_)
split_colon(s) ==
    IF \A i \in 1..Len(s) : s[i] # ":" THEN << s >>
    ELSE LET i == CHOOSE j \in 1..Len(s) :
                      s[j] = ":" /\ \A h \in 1..(j - 1) : s[h] # ":"
         IN << SubSeq(s, 1, i - 1) >> \o split_colon(SubSeq(s, i + 1, Len(s)))

\* record_from_handle: the four lines next(handle) gives, each stripped
record_lines(raw) == [i \in 1..4 |-> strip(raw[i])]

\* barcode_from_record of the three parsers with the first field of the header,
\* and the first index read alone
barcode_from_record_FirstField(parser, record) ==
    IF parser = "FastqFileParserHeaderIndex"
    THEN split_colon(record[1][1])[1]
    ELSE record[1][2]

\* barcode_from_record of the three parsers, on the list of reads each is given
barcode_from_record(parser, record) ==
    IF parser = "FastqFileParserHeaderIndex"
    THEN split_colon(record[1][1])[Len(split_colon(record[1][1]))]
    ELSE IF parser = "FastqFileParserI1"
    THEN record[Len(record)][2]
    ELSE record[Len(record) - 1][2] \o << "+" >> \o record[Len(record)][2]

\* records_from_handles: the barcode of the reads taken from the handles at one
\* step; the header parser looks at the reads, the other two at the index reads
barcode_from_handles(files, raw) ==
    LET parser == create_fastq_file_parser(files)
        reads == [j \in 1..Len(read_handles(files)) |-> record_lines(raw[read_handles(files)[j]])]
        index == [j \in 1..Len(index_handles(files)) |-> record_lines(raw[index_handles(files)[j]])]
    IN barcode_from_record(parser,
                           IF parser = "FastqFileParserHeaderIndex" THEN reads ELSE index)

InputFiles == { F \in SUBSET { "R1", "R2", "I1", "I2" } : "R1" \in F }

NoCall == [fn |-> "none"]

NoCli == [stage |-> "none"]

\* list(parser.fastq_records()): the parser alone, over files of any lengths
InitParser ==
    /\ \E F \in InputFiles : nlines \in [F -> 0..MaxLines]
    /\ pos = [h \in { get_file_handles(DOMAIN nlines)[j] :
                       j \in 1..Len(get_file_handles(DOMAIN nlines)) } |-> 0]
    /\ pstate = "open"
    /\ yielded = << >>
    /\ barcode_to_sample_mapping = EmptyMap
    /\ mismatches = 0
    /\ engine = "none"
    /\ fastq_file_writers = EmptyMap
    /\ barcode_counts = EmptyMap
    /\ barcode_mismatches_count = EmptyMap
    /\ mismatched_barcodes = EmptyMap
    /\ status = "none"
    /\ call = NoCall
    /\ cli = NoCli

NextRecord ==
    /\ pstate = "open"
    /\ LET r == fastq_records(pos, nlines)
       IN /\ pos' = r.pos
          /\ pstate' = IF r.outcome = "yield" THEN "open" ELSE r.outcome
          /\ yielded' = IF r.outcome = "yield" THEN Append(yielded, r.element) ELSE yielded
    /\ UNCHANGED << barcode_to_sample_mapping, mismatches, engine, fastq_file_writers,
                    barcode_counts, barcode_mismatches_count, mismatched_barcodes,
                    status, nlines, call, cli >>

SpecParser == InitParser /\ [][NextRecord]_vars

\* the number of complete records of a file
NumRecords(h) == nlines[h] \div 4

\* C2: whenever the opened files hold different numbers of records, iterating
\* fastq_records() to the end fails with the length-mismatch error: the generator
\* never ends normally on such files
C2_LengthMismatchRaised ==
    pstate = "exhausted" =>
        \A g, h \in DOMAIN pos : NumRecords(g) = NumRecords(h)

\* the number of complete records of the shortest opened stream
MinRecords ==
    CHOOSE m \in { NumRecords(h) : h \in DOMAIN pos } :
        \A h \in DOMAIN pos : m <= NumRecords(h)

\* C16: fastq_records() yields min over the opened streams of floor(lines / 4) elements
\* and no more; the i-th is built from the lines from 4(i-1) on of every stream; and
\* while the generator is suspended after i elements, 4i lines of every opened stream
\* have been consumed
C16_LockstepFourLines ==
    /\ Len(yielded) <= MinRecords
    /\ pstate # "open" => Len(yielded) = MinRecords
    /\ \A i \in 1..Len(yielded) : yielded[i] = [h \in DOMAIN pos |-> 4 * (i - 1)]
    /\ pstate = "open" => \A h \in DOMAIN pos : pos[h] = 4 * Len(yielded)

\* the generator has ended after one element: a stream has a second record and another
\* stream has one record and lines of a second
C16_Witness ==
    /\ pstate # "open"
    /\ Len(yielded) = 1
    /\ \E g, h \in DOMAIN pos : nlines[g] = 8 /\ nlines[h] \in 5..7

(***************************************************************************)
(* The barcode fastq_records() yields with a record, over the text of the  *)
(* four lines of every supplied file at that step.                         *)
(***************************************************************************)
\* a line as the file handle gives it
Line(s) == s \o << "\n" >>

\* header lines: one colon, several colons, no colon, an empty last field, a dual index
HeaderLines ==
    { Line(<< "@", ":", "A", "A" >>), Line(<< "@", "A", ":", "B", ":", "A", "B" >>),
      Line(<< "@", "A", "B" >>), Line(<< "@", "A", ":" >>),
      Line(<< "@", ":", "A", "+", "B" >>) }

\* sequence lines of the index files
IndexLines == { Line(<< "A", "B" >>), Line(<< "B" >>) }

\* the four lines of a read of each kind of file
RawReads(h) ==
    IF h = "R1" THEN { << hdr, Line(<< "A" >>), Line(<< "+" >>), Line(<< "#" >>) >> : hdr \in HeaderLines }
    ELSE IF h = "R2" THEN { << Line(<< "@", ":", "B" >>), Line(<< "B" >>), Line(<< "+" >>), Line(<< "#" >>) >> }
    ELSE { << Line(<< "@" >>), sq, Line(<< "+" >>), Line(<< "#" >>) >> : sq \in IndexLines }

\* the text of one step of the supplied files
RawRecords(files) ==
    { raw \in [files -> UNION { RawReads(h) : h \in files }] :
          \A h \in files : raw[h] \in RawReads(h) }

\* one next() of fastq_records() that yields: the record and its barcode
RecordsFromHandles ==
    /\ pstate = "open"
    /\ fastq_records(pos, nlines).outcome = "yield"
    /\ \E raw \in RawRecords(DOMAIN nlines) :
          call' = [fn |-> "records_from_handles",
                   parser |-> create_fastq_file_parser(DOMAIN nlines),
                   raw |-> raw,
                   barcode |-> barcode_from_handles(DOMAIN nlines, raw)]
    /\ pos' = fastq_records(pos, nlines).pos
    /\ yielded' = Append(yielded, fastq_records(pos, nlines).element)
    /\ UNCHANGED << barcode_to_sample_mapping, mismatches, engine, fastq_file_writers,
                    barcode_counts, barcode_mismatches_count, mismatched_barcodes,
                    status, nlines, pstate, cli >>

SpecBarcode == InitParser /\ [][RecordsFromHandles]_vars

\* the text of a line: the line without its terminator
Text(line) == SubSeq(line, 1, Len(line) - 1)

\* the text after the last ":" of a string, the whole string if it has none
AfterLastColon(s) ==
    LET colons == { i \in 1..Len(s) : s[i] = ":" }
    IN IF colons = {} THEN s
       ELSE SubSeq(s, (CHOOSE i \in colons : \A j \in colons : j <= i) + 1, Len(s))

\* C17: the strategy follows from the index files supplied, the same at every step
\* (no I1: header; I1 without I2: single index; I1 and I2: dual index), and the
\* barcode yielded with a record is the last colon-delimited field of the header of
\* the first read, the sequence line of the I1 read, or the I1 sequence line, "+" and
\* the I2 sequence line of that step
C17_BarcodeByStrategy ==
    call.fn = "records_from_handles" =>
        LET files == DOMAIN nlines
        IN /\ "I1" \notin files =>
                 /\ call.parser = "FastqFileParserHeaderIndex"
                 /\ call.barcode = AfterLastColon(Text(call.raw["R1"][1]))
           /\ ("I1" \in files /\ "I2" \notin files) =>
                 /\ call.parser = "FastqFileParserI1"
                 /\ call.barcode = Text(call.raw["I1"][2])
           /\ ("I1" \in files /\ "I2" \in files) =>
                 /\ call.parser = "FastqFileParserI2"
                 /\ call.barcode = Text(call.raw["I1"][2]) \o << "+" >> \o Text(call.raw["I2"][2])

\* a second record of paired reads with two index files, the index reads differing
\* from each other and from the field of the header
C17_Witness ==
    /\ call.fn = "records_from_handles"
    /\ Len(yielded) = 2
    /\ DOMAIN nlines = { "R1", "R2", "I1", "I2" }
    /\ call.raw["R1"][1] = Line(<< "@", ":", "A", "A" >>)
    /\ call.barcode = << "A", "B", "+", "B" >>

(***************************************************************************)
(* FastqFileWriterHandler                                                  *)
(***************************************************************************)
\* write_fastq_record with the record put before what the writer holds
write_fastq_record_Prepends(writers, barcode, record) ==
    IF barcode \notin DOMAIN writers
    THEN [raised |-> "KeyError", writers |-> writers]
    ELSE [raised |-> "none",
          writers |-> [writers EXCEPT ![barcode] =
                          [read_no \in DOMAIN writers[barcode] |->
                              << record >> \o writers[barcode][read_no]]]]

\* write_fastq_record with the first read of the record written only
write_fastq_record_FirstRead(writers, barcode, record) ==
    IF barcode \notin DOMAIN writers
    THEN [raised |-> "KeyError", writers |-> writers]
    ELSE [raised |-> "none",
          writers |-> [writers EXCEPT ![barcode] =
                          [read_no \in DOMAIN writers[barcode] |->
                              IF read_no = 1
                              THEN Append(writers[barcode][read_no], record)
                              ELSE writers[barcode][read_no]]]]

\* write_fastq_record: one write_record per read of the record, to the writer of
\* that read in the barcode's set; KeyError, before anything is written, when no
\* writers exist for the barcode
write_fastq_record(writers, barcode, record) ==
    IF barcode \notin DOMAIN writers
    THEN [raised |-> "KeyError", writers |-> writers]
    ELSE [raised |-> "none",
          writers |-> [writers EXCEPT ![barcode] =
                          [read_no \in DOMAIN writers[barcode] |->
                              Append(writers[barcode][read_no], record)]]]

(***************************************************************************)
(* DemultiplexResults                                                      *)
(***************************************************************************)
\* add that leaves the histograms alone
add_CountOnly(counts, mismatch_counts, barcode, n, distance) ==
    [counts |-> CounterAdd(counts, barcode, n), mismatch_counts |-> mismatch_counts]

\* add(barcode, n, distance); the key str(distance) is written as the number
add(counts, mismatch_counts, barcode, n, distance) ==
    [counts |-> CounterAdd(counts, barcode, n),
     mismatch_counts |->
         IF barcode \in DOMAIN mismatch_counts
         THEN [mismatch_counts EXCEPT ![barcode] = CounterAdd(mismatch_counts[barcode], distance, n)]
         ELSE mismatch_counts]

known_barcode_counts(counts, mapping) ==
    [b \in (DOMAIN counts) \cap (DOMAIN mapping) |-> counts[b]]

unknown_barcode_counts(counts, mapping) ==
    [b \in (DOMAIN counts) \ (DOMAIN mapping) |-> counts[b]]

_sample_to_barcode(mapping) ==
    [sample \in { mapping[b] : b \in DOMAIN mapping } |->
        { b \in DOMAIN mapping : mapping[b] = sample }]

barcode_mismatch_counts(mismatch_counts, barcode) ==
    LET seen == DOMAIN mismatch_counts[barcode]
        max_distance == CHOOSE d \in seen \cup {0} : \A e \in seen \cup {0} : e <= d
    IN [distance \in 0..max_distance |-> CounterGet(mismatch_counts[barcode], distance)]

stats_json(counts, mismatch_counts, mapping) ==
    [DemuxResults |->
        [sample \in DOMAIN _sample_to_barcode(mapping) |->
            [NumberReads |->
                 SumOver([b \in _sample_to_barcode(mapping)[sample] |-> CounterGet(counts, b)],
                         _sample_to_barcode(mapping)[sample]),
             IndexMetrics |->
                 [b \in _sample_to_barcode(mapping)[sample] |->
                     barcode_mismatch_counts(mismatch_counts, b)]]],
     Undetermined |->
        SumOver(unknown_barcode_counts(counts, mapping),
                DOMAIN unknown_barcode_counts(counts, mapping)),
     UnknownBarcodes |-> unknown_barcode_counts(counts, mapping)]

\* the list of the DemuxResults entries with the reads of the first barcode of a sample
demux_results_FirstBarcode(counts, mismatch_counts, mapping) ==
    LET samples == KeyList(DOMAIN _sample_to_barcode(mapping))
    IN [i \in 1..Len(samples) |->
           LET barcodes == KeyList(_sample_to_barcode(mapping)[samples[i]])
           IN [SampleId |-> samples[i],
               NumberReads |-> CounterGet(counts, barcodes[1]),
               IndexMetrics |->
                   [j \in 1..Len(barcodes) |->
                       [IndexSequence |-> barcodes[j],
                        MismatchCounts |-> barcode_mismatch_counts(mismatch_counts, barcodes[j])]]]]

\* the list demux_results of stats_json: an entry appended for every item of
\* _sample_to_barcode(), with an IndexMetrics entry for every barcode of the item
demux_results(counts, mismatch_counts, mapping) ==
    LET samples == KeyList(DOMAIN _sample_to_barcode(mapping))
    IN [i \in 1..Len(samples) |->
           LET barcodes == KeyList(_sample_to_barcode(mapping)[samples[i]])
           IN [SampleId |-> samples[i],
               NumberReads |->
                   SumOver([j \in 1..Len(barcodes) |-> CounterGet(counts, barcodes[j])],
                           1..Len(barcodes)),
               IndexMetrics |->
                   [j \in 1..Len(barcodes) |->
                       [IndexSequence |-> barcodes[j],
                        MismatchCounts |-> barcode_mismatch_counts(mismatch_counts, barcodes[j])]]]]

(***************************************************************************)
(* FastqDemultiplexer, FastqMismatchDemultiplexer                          *)
(***************************************************************************)
create_fastq_demultiplexer(k) ==
    IF k = 0 THEN "FastqDemultiplexer" ELSE "FastqMismatchDemultiplexer"

\* demultiplex_record with the write to the unknown barcode outside the except clause
demultiplex_record_WritesBoth(writers, counts, mismatch_counts, record, barcode) ==
    LET w1 == write_fastq_record(writers, barcode, record)
        w2 == write_fastq_record(w1.writers, UnknownBarcode, record)
        a == add(counts, mismatch_counts, barcode, 1, 0)
    IN IF w2.raised # "none"
       THEN [raised |-> w2.raised, writers |-> writers,
             counts |-> counts, mismatch_counts |-> mismatch_counts]
       ELSE [raised |-> "none", writers |-> w2.writers,
             counts |-> a.counts, mismatch_counts |-> a.mismatch_counts]

\* demultiplex_record with the count given to the barcode whose writers were used
demultiplex_record_CountsSink(writers, counts, mismatch_counts, record, barcode) ==
    LET w1 == write_fastq_record(writers, barcode, record)
        w2 == IF w1.raised = "KeyError"
              THEN write_fastq_record(writers, UnknownBarcode, record)
              ELSE w1
        a == add(counts, mismatch_counts,
                 IF w1.raised = "KeyError" THEN UnknownBarcode ELSE barcode, 1, 0)
    IN IF w2.raised # "none"
       THEN [raised |-> w2.raised, writers |-> writers,
             counts |-> counts, mismatch_counts |-> mismatch_counts]
       ELSE [raised |-> "none", writers |-> w2.writers,
             counts |-> a.counts, mismatch_counts |-> a.mismatch_counts]

\* FastqDemultiplexer.demultiplex_record
demultiplex_record(writers, counts, mismatch_counts, record, barcode) ==
    LET w1 == write_fastq_record(writers, barcode, record)
        w2 == IF w1.raised = "KeyError"
              THEN write_fastq_record(writers, UnknownBarcode, record)
              ELSE w1
        a == add(counts, mismatch_counts, barcode, 1, 0)
    IN IF w2.raised # "none"
       THEN [raised |-> w2.raised, writers |-> writers,
             counts |-> counts, mismatch_counts |-> mismatch_counts]
       ELSE [raised |-> "none", writers |-> w2.writers,
             counts |-> a.counts, mismatch_counts |-> a.mismatch_counts]

\* the mismatch demultiplex_record that stores an entry for the unknown barcode before
\* the matcher's exception leaves the method
mismatch_demultiplex_record_CachesFailure(writers, counts, mismatch_counts, cache, mapping, k, record, barcode) ==
    LET m == IF barcode \in DOMAIN cache
             THEN [raised |-> "none", entry |-> cache[barcode]]
             ELSE match_mismatched_barcode(barcode, mapping, k)
        entry == IF m.raised # "none" THEN << UnknownBarcode, 0, barcode >> ELSE m.entry
        cached == [x \in (DOMAIN cache) \cup {barcode} |->
                      IF x = barcode THEN entry ELSE cache[x]]
        w == write_fastq_record(writers, entry[1], record)
        a == add(counts, mismatch_counts, entry[3], 1, entry[2])
        unchanged == [raised |-> "none", writers |-> writers, counts |-> counts,
                      mismatch_counts |-> mismatch_counts, cache |-> cache]
    IN IF m.raised # "none" THEN [unchanged EXCEPT !.raised = m.raised, !.cache = cached]
       ELSE IF w.raised # "none"
            THEN [unchanged EXCEPT !.raised = "RecursionError", !.cache = cached]
            ELSE [raised |-> "none", writers |-> w.writers, counts |-> a.counts,
                  mismatch_counts |-> a.mismatch_counts, cache |-> cached]

\* the mismatch demultiplex_record with a cache of the last barcode alone
mismatch_demultiplex_record_CacheOfOne(writers, counts, mismatch_counts, cache, mapping, k, record, barcode) ==
    LET m == IF barcode \in DOMAIN cache
             THEN [raised |-> "none", entry |-> cache[barcode]]
             ELSE match_mismatched_barcode(barcode, mapping, k)
        cached == [x \in {barcode} |-> m.entry]
        w == write_fastq_record(writers, m.entry[1], record)
        a == add(counts, mismatch_counts, m.entry[3], 1, m.entry[2])
        unchanged == [raised |-> "none", writers |-> writers, counts |-> counts,
                      mismatch_counts |-> mismatch_counts, cache |-> cache]
    IN IF m.raised # "none" THEN [unchanged EXCEPT !.raised = m.raised]
       ELSE IF w.raised # "none"
            THEN [unchanged EXCEPT !.raised = "RecursionError", !.cache = cached]
            ELSE [raised |-> "none", writers |-> w.writers, counts |-> a.counts,
                  mismatch_counts |-> a.mismatch_counts, cache |-> cached]

\* FastqMismatchDemultiplexer.demultiplex_record. The KeyError of a barcode that is
\* not in the cache and the KeyError of a resolved barcode without writers are
\* caught alike: the barcode is matched (again) and the method calls itself, which
\* for a resolved barcode without writers never ends but in RecursionError
mismatch_demultiplex_record(writers, counts, mismatch_counts, cache, mapping, k, record, barcode) ==
    LET m == IF barcode \in DOMAIN cache
             THEN [raised |-> "none", entry |-> cache[barcode]]
             ELSE match_mismatched_barcode(barcode, mapping, k)
        cached == [x \in (DOMAIN cache) \cup {barcode} |->
                      IF x = barcode THEN m.entry ELSE cache[x]]
        w == write_fastq_record(writers, m.entry[1], record)
        a == add(counts, mismatch_counts, m.entry[3], 1, m.entry[2])
        unchanged == [raised |-> "none", writers |-> writers, counts |-> counts,
                      mismatch_counts |-> mismatch_counts, cache |-> cache]
    IN IF m.raised # "none" THEN [unchanged EXCEPT !.raised = m.raised]
       ELSE IF w.raised # "none"
            THEN [unchanged EXCEPT !.raised = "RecursionError", !.cache = cached]
            ELSE [raised |-> "none", writers |-> w.writers, counts |-> a.counts,
                  mismatch_counts |-> a.mismatch_counts, cache |-> cached]

(***************************************************************************)
(* A run of demultiplex() on an engine made by create_fastq_demultiplexer, *)
(* over a mapping and a set of writers of the caller's choice.             *)
(***************************************************************************)
\* the barcodes of the sample sheet and of the reads of a run
EngineKnownBarcodes ==
    { <<"A", "A">>, <<"B", "B">>, <<"A">> }

EngineObservedBarcodes ==
    { <<"A", "A">>, <<"A", "B">>, <<"B", "B">>, <<"A">>, UnknownBarcode }

\* the sequences of the index reads of a run
EngineIndexSegments ==
    { <<"A", "A">>, <<"A", "B">>, <<"B", "B">>, <<"A">> }

\* the four lines of a read of a run: the header of an R1 read ends in a barcode
EngineRawReads(h) ==
    IF h = "R1"
    THEN { << Line(<< "@", "A", ":" >> \o b), Line(<< "A" >>), Line(<< "+" >>), Line(<< "#" >>) >> :
              b \in EngineObservedBarcodes }
    ELSE IF h = "R2"
    THEN { << Line(<< "@", ":", "B" >>), Line(<< "B" >>), Line(<< "+" >>), Line(<< "#" >>) >> }
    ELSE { << Line(<< "@" >>), Line(sq), Line(<< "+" >>), Line(<< "#" >>) >> :
              sq \in EngineIndexSegments }

\* the text of one step of the files of a run
EngineRawRecords(files) ==
    { raw \in [files -> UNION { EngineRawReads(h) : h \in files }] :
          \A h \in files : raw[h] \in EngineRawReads(h) }

\* a sample sheet of at most MaxKnown rows, with or without the unknown barcode
Mappings(pool, samples) ==
    UNION { UNION { { m, [b \in keys \cup {UnknownBarcode} |->
                            IF b \in keys THEN m[b] ELSE UnknownSample] } :
                    m \in [keys -> samples] } :
            keys \in { K \in SUBSET pool : Cardinality(K) <= MaxKnown } }

\* the barcodes with writers: those of the mapping and the unknown barcode, or
\* these with one missing, or with one more
WriterSets(keys, observed) ==
    LET full == keys \cup {UnknownBarcode}
    IN {full} \cup { full \ {b} : b \in full } \cup { full \cup {b} : b \in observed }

NoFiles == [h \in {} |-> << >>]

InitDemux ==
    /\ barcode_to_sample_mapping \in Mappings(EngineKnownBarcodes, Samples)
    /\ mismatches \in 0..MaxMismatches
    /\ engine = create_fastq_demultiplexer(mismatches)
    /\ nlines \in [{"R1", "R2"} -> { 4 * n : n \in 0..MaxRecords }]
    /\ pos = [h \in DOMAIN nlines |-> 0]
    /\ \E W \in WriterSets(DOMAIN barcode_to_sample_mapping, EngineObservedBarcodes) :
          fastq_file_writers =
              [b \in W |-> [read_no \in 1..Len(read_handles(DOMAIN nlines)) |-> << >>]]
    /\ barcode_counts = EmptyMap
    /\ barcode_mismatches_count = [b \in DOMAIN barcode_to_sample_mapping |-> EmptyMap]
    /\ mismatched_barcodes = EmptyMap
    /\ status = "running"
    /\ pstate = "open"
    /\ yielded = << >>
    /\ call = NoCall
    /\ cli = NoCli

\* one pass of the loop of demultiplex() that gets a record from the parser
DemultiplexRecord ==
    /\ status = "running"
    /\ fastq_records(pos, nlines).outcome = "yield"
    /\ \E raw \in EngineRawRecords(DOMAIN nlines) :
          LET record == Len(yielded) + 1
              barcode == barcode_from_handles(DOMAIN nlines, raw)
              r == IF engine = "FastqDemultiplexer"
                   THEN demultiplex_record(fastq_file_writers, barcode_counts,
                                           barcode_mismatches_count, record, barcode)
                        @@ [cache |-> mismatched_barcodes]
                   ELSE mismatch_demultiplex_record(
                            fastq_file_writers, barcode_counts, barcode_mismatches_count,
                            mismatched_barcodes, barcode_to_sample_mapping, mismatches,
                            record, barcode)
          IN /\ fastq_file_writers' = r.writers
             /\ barcode_counts' = r.counts
             /\ barcode_mismatches_count' = r.mismatch_counts
             /\ mismatched_barcodes' = r.cache
             /\ status' = IF r.raised = "none" THEN "running" ELSE r.raised
             /\ call' = [fn |-> "demultiplex_record", barcode |-> barcode, raised |-> r.raised]
    /\ pos' = fastq_records(pos, nlines).pos
    /\ yielded' = Append(yielded, fastq_records(pos, nlines).element)
    /\ UNCHANGED << barcode_to_sample_mapping, mismatches, engine, nlines, pstate, cli >>

\* the pass of the loop in which the parser ends: demultiplex() returns the results,
\* or the parser's exception ends it
DemultiplexEnd ==
    /\ status = "running"
    /\ fastq_records(pos, nlines).outcome # "yield"
    /\ pos' = fastq_records(pos, nlines).pos
    /\ pstate' = fastq_records(pos, nlines).outcome
    /\ status' = IF fastq_records(pos, nlines).outcome = "exhausted" THEN "done" ELSE "Exception"
    /\ UNCHANGED << barcode_to_sample_mapping, mismatches, engine, fastq_file_writers,
                    barcode_counts, barcode_mismatches_count, mismatched_barcodes,
                    nlines, yielded, call, cli >>

Next == DemultiplexRecord \/ DemultiplexEnd

Spec == InitDemux /\ [][Next]_vars

(***************************************************************************)
(* The matcher alone: one call of match_mismatched_barcode, or of          *)
(* match_mismatched_single_barcode, on a demultiplexer with any mapping.   *)
(***************************************************************************)
KnownBarcodes ==
    KnownSegments \cup { join(<< s, t >>) : s, t \in KnownSegments }

ObservedBarcodes ==
    ObservedSegments \cup { join(<< s, t >>) : s, t \in ObservedSegments }
        \cup { UnknownBarcode }

InitMatch ==
    /\ barcode_to_sample_mapping \in Mappings(KnownBarcodes, {"S1"})
    /\ mismatches \in 1..MaxMismatches
    /\ engine = "FastqMismatchDemultiplexer"
    /\ fastq_file_writers = EmptyMap
    /\ barcode_counts = EmptyMap
    /\ barcode_mismatches_count = [b \in DOMAIN barcode_to_sample_mapping |-> EmptyMap]
    /\ mismatched_barcodes = EmptyMap
    /\ status = "none"
    /\ nlines = NoFiles
    /\ pos = NoFiles
    /\ pstate = "none"
    /\ yielded = << >>
    /\ call = NoCall
    /\ cli = NoCli

MatchBarcode ==
    /\ call = NoCall
    /\ \E barcode \in ObservedBarcodes :
          LET m == match_mismatched_barcode(barcode, barcode_to_sample_mapping, mismatches)
          IN /\ mismatched_barcodes' =
                    IF m.raised = "none" THEN [x \in {barcode} |-> m.entry]
                    ELSE mismatched_barcodes
             /\ call' = [fn |-> "match_mismatched_barcode", barcode |-> barcode,
                         raised |-> m.raised]
    /\ UNCHANGED << barcode_to_sample_mapping, mismatches, engine, fastq_file_writers,
                    barcode_counts, barcode_mismatches_count, status, nlines, pos,
                    pstate, yielded, cli >>

MatchSingleBarcode ==
    /\ call = NoCall
    /\ \E barcode \in ObservedSegments, ix \in 1..2 :
          LET known == KnownAt(KeyList(DOMAIN barcode_to_sample_mapping), ix)
              r == match_mismatched_single_barcode(barcode, known.list, mismatches)
          IN /\ known.raised = "none"
             /\ call' = [fn |-> "match_mismatched_single_barcode", barcode |-> barcode,
                         known_barcodes |-> known.list, raised |-> r.raised,
                         mk |-> r.mk, d |-> r.d]
    /\ UNCHANGED << barcode_to_sample_mapping, mismatches, engine, fastq_file_writers,
                    barcode_counts, barcode_mismatches_count, mismatched_barcodes,
                    status, nlines, pos, pstate, yielded, cli >>

NextMatch == MatchBarcode \/ MatchSingleBarcode

SpecMatch == InitMatch /\ [][NextMatch]_vars

(***************************************************************************)
(* What the claims about the matcher speak of, stated from the inputs.     *)
(***************************************************************************)
\* the known barcodes: the keys of the mapping other than the unknown barcode
Known == (DOMAIN barcode_to_sample_mapping) \ {UnknownBarcode}

\* the known barcodes that have a segment at position ix
KnownWithSegment(ix) == { b \in Known : Len(split(b)) >= ix }

\* the segments of the known barcodes at position ix
SegmentsAt(ix) == { split(b)[ix] : b \in KnownWithSegment(ix) }

\* the lowest distance of an observed segment from the segments of the set S
Lowest(seg, S) ==
    CHOOSE d \in { hamming_distance(s, seg) : s \in S } :
        \A s \in S : d <= hamming_distance(s, seg)

\* the segments of S at the lowest distance from seg, when that is within the tolerance
Nearest(seg, S) ==
    IF S = {} THEN {}
    ELSE LET d == Lowest(seg, S)
         IN IF d > mismatches THEN {}
            ELSE { s \in S : hamming_distance(s, seg) = d }

\* the best match of segment ix of an observed barcode: the nearest known segment
\* within the tolerance, the empty string when there is none
BestMatch(barcode, ix) ==
    LET near == Nearest(split(barcode)[ix], SegmentsAt(ix))
    IN IF near = {} THEN << >> ELSE CHOOSE s \in near : TRUE

JoinedBestMatches(barcode) ==
    join([ix \in 1..Len(split(barcode)) |-> BestMatch(barcode, ix)])

Matched == call.fn = "match_mismatched_barcode"

\* the known barcodes whose segment at ix is at the lowest distance, within the
\* tolerance, from segment ix of the observed barcode
TiedBarcodes(barcode, ix) ==
    LET near == Nearest(split(barcode)[ix], SegmentsAt(ix))
    IN { b \in KnownWithSegment(ix) : split(b)[ix] \in near }

\* the sample sheet and the observed barcode are dual-index, with segments of one length
DualIndex ==
    /\ Len(split(call.barcode)) = 2
    /\ \A b \in Known :
          /\ Len(split(b)) = 2
          /\ \A ix \in 1..2 : Len(split(b)[ix]) = Len(split(call.barcode)[ix])

\* C6 as stated, on a dual-index sample sheet: whenever the segments of two different
\* known composite barcodes tie at the lowest distance d <= k from an observed
\* segment, match_mismatched_barcode raises the ambiguous-barcode error
C6_TieOfBarcodesRaises ==
    (Matched /\ DualIndex) =>
        \A ix \in 1..2 :
            Cardinality(TiedBarcodes(call.barcode, ix)) >= 2 => call.raised = "ambiguous"

\* C6 as amended: whenever two known segments that are different strings tie at the
\* lowest distance d <= k from an observed segment, match_mismatched_barcode selects
\* none of them: it raises the ambiguous-barcode error, or an IndexError when a known
\* barcode has no segment at that position
C6_TieOfSegmentsRaises ==
    Matched =>
        \A ix \in 1..Len(split(call.barcode)) :
            Cardinality({ split(b)[ix] : b \in TiedBarcodes(call.barcode, ix) }) >= 2
            => /\ call.raised \in {"ambiguous", "index"}
               /\ KnownWithSegment(ix) = Known => call.raised = "ambiguous"

\* a tie of different strings at the second segment has raised the error
C6_Witness ==
    /\ Matched
    /\ call.raised = "ambiguous"
    /\ Len(split(call.barcode)) = 2
    /\ \E b1, b2 \in TiedBarcodes(call.barcode, 2) :
          /\ split(b1)[2] # split(b2)[2]
          /\ split(b1)[1] = split(b2)[1]

MatchedSingle == call.fn = "match_mismatched_single_barcode"

KnownList == { call.known_barcodes[x] : x \in 1..Len(call.known_barcodes) }

\* C7: when two or more distinct known segments are at the lowest distance d <= k from
\* the observed segment, match_mismatched_single_barcode raises: it returns neither
\* one of them nor a segment at a greater distance
C7_TieRaisesInSingle ==
    MatchedSingle =>
        (Cardinality(Nearest(call.barcode, KnownList)) >= 2 => call.raised = "ambiguous")

\* a tie at distance 1 with a third known segment at distance 2, within the tolerance
C7_Witness ==
    /\ MatchedSingle
    /\ call.raised = "ambiguous"
    /\ Cardinality(Nearest(call.barcode, KnownList)) = 2
    /\ Lowest(call.barcode, KnownList) = 1
    /\ \E s \in KnownList : hamming_distance(s, call.barcode) = 2 /\ mismatches >= 2

\* the number of positions of the shorter of two strings at which they differ
DistanceOverShorter(s, t) ==
    LET n == IF Len(s) < Len(t) THEN Len(s) ELSE Len(t)
    IN Cardinality({ i \in 1..n : s[i] # t[i] })

\* the known segments of the call within the tolerance of the observed segment
WithinTolerance ==
    { s \in KnownList : DistanceOverShorter(s, call.barcode) <= mismatches }

\* the known segments of the call nearest to the observed segment
NearestKnown ==
    { s \in KnownList :
          \A t \in KnownList :
              DistanceOverShorter(s, call.barcode) <= DistanceOverShorter(t, call.barcode) }

\* C24: match_mismatched_single_barcode, the distance being counted over the positions
\* of the shorter string: if the lowest distance d over the known segments is within
\* the tolerance and one string alone is at distance d, it returns (that segment, d);
\* if no known segment is within the tolerance it returns ('', -1); and a segment at a
\* distance greater than the lowest is never returned
C24_NearestSegmentReturned ==
    MatchedSingle =>
        /\ WithinTolerance = {} =>
              (call.raised = "none" /\ call.mk = << >> /\ call.d = -1)
        /\ \A s \in WithinTolerance :
              NearestKnown = {s} =>
                  /\ call.raised = "none"
                  /\ call.mk = s
                  /\ call.d = DistanceOverShorter(s, call.barcode)
        /\ (call.raised = "none" /\ call.d # -1) =>
              /\ call.mk \in NearestKnown
              /\ call.d = DistanceOverShorter(call.mk, call.barcode)
              /\ call.d >= 0 /\ call.d <= mismatches

\* a shorter observed segment: "A" is at distance 0 of "AB" and at distance 1 of another
\* known segment, both within the tolerance, and ("AB", 0) is returned
C24_Witness ==
    /\ MatchedSingle
    /\ call.barcode = << "A" >>
    /\ call.raised = "none"
    /\ call.mk = << "A", "B" >>
    /\ call.d = 0
    /\ \E s \in KnownList : DistanceOverShorter(s, call.barcode) = 1

\* C8: when the join of the best matches of the segments is no key of the mapping, the
\* entry stored for the observed barcode is (unknown barcode, 0, observed barcode)
C8_UnknownResolution ==
    (Matched /\ call.raised = "none") =>
        (JoinedBestMatches(call.barcode) \notin DOMAIN barcode_to_sample_mapping
            => mismatched_barcodes[call.barcode] = << UnknownBarcode, 0, call.barcode >>)

\* every segment matched, one of them at a distance, to segments that never co-occur
C8_Witness ==
    /\ Matched /\ call.raised = "none"
    /\ Len(split(call.barcode)) = 2
    /\ \A ix \in 1..2 : BestMatch(call.barcode, ix) # << >>
    /\ \E ix \in 1..2 : BestMatch(call.barcode, ix) # split(call.barcode)[ix]
    /\ JoinedBestMatches(call.barcode) \notin DOMAIN barcode_to_sample_mapping
    /\ mismatched_barcodes[call.barcode] = << UnknownBarcode, 0, call.barcode >>

\* the entry stored for the observed barcode of the call
Entry == mismatched_barcodes[call.barcode]

\* the distances of the segments of the observed barcode from those of barcode B
SegmentDistances(B) ==
    { DistanceOverShorter(split(call.barcode)[ix], split(B)[ix]) :
          ix \in 1..Len(split(call.barcode)) }

\* C25: an observed barcode resolved to a known barcode B with distance d has every
\* segment within the tolerance of the corresponding segment of B, d is the largest of
\* the distances of the segments, and 0 <= d <= k; an observed barcode classified
\* unknown is recorded with distance 0
C25_DistanceIsLargestOfSegments ==
    (Matched /\ call.raised = "none") =>
        IF Entry[1] # UnknownBarcode
        THEN /\ Entry[1] \in Known
             /\ Len(split(Entry[1])) >= Len(split(call.barcode))
             /\ \A d \in SegmentDistances(Entry[1]) : d <= mismatches
             /\ Entry[2] \in SegmentDistances(Entry[1])
             /\ \A d \in SegmentDistances(Entry[1]) : d <= Entry[2]
             /\ Entry[2] >= 0 /\ Entry[2] <= mismatches
        ELSE Entry[2] = 0

\* a dual-index barcode resolved with one segment at distance 1 and the other at
\* distance 2: the distance recorded is 2
C25_Witness ==
    /\ Matched /\ call.raised = "none"
    /\ Entry[1] # UnknownBarcode
    /\ Len(split(call.barcode)) = 2
    /\ SegmentDistances(Entry[1]) = { 1, 2 }
    /\ Entry[2] = 2

\* one segment of the observed dual-index barcode equals that of B, the other is
\* within the tolerance of that of B
OneIndexInError(barcode, B) ==
    /\ Len(split(barcode)) = 2 /\ Len(split(B)) = 2
    /\ mismatches >= 1
    /\ \E i \in 1..2 :
          /\ split(barcode)[i] = split(B)[i]
          /\ hamming_distance(split(barcode)[3 - i], split(B)[3 - i]) <= mismatches

ResolvedTo(B) ==
    /\ call.raised = "none"
    /\ mismatched_barcodes[call.barcode][1] = B

RecordStep == Len(yielded') = Len(yielded) + 1

\* demultiplex_record returns in the step
Returns == status' = "running"

\* writers are registered for every key of the mapping and for the unknown barcode
SinksRegistered ==
    (DOMAIN barcode_to_sample_mapping) \cup {UnknownBarcode} \subseteq DOMAIN fastq_file_writers

\* the step appends every read of the record to the writers of b, and to no other
WrittenTo(b) ==
    /\ b \in DOMAIN fastq_file_writers
    /\ DOMAIN fastq_file_writers' = DOMAIN fastq_file_writers
    /\ \A read_no \in DOMAIN fastq_file_writers[b] :
          fastq_file_writers'[b][read_no] =
              Append(fastq_file_writers[b][read_no], Len(yielded) + 1)
    /\ \A c \in (DOMAIN fastq_file_writers) \ {b} :
          fastq_file_writers'[c] = fastq_file_writers[c]

\* the step adds 1 to the count of key and leaves every other count
CountedUnder(key) ==
    /\ CounterGet(barcode_counts', key) = CounterGet(barcode_counts, key) + 1
    /\ \A other \in ((DOMAIN barcode_counts') \cup (DOMAIN barcode_counts)) \ {key} :
          CounterGet(barcode_counts', other) = CounterGet(barcode_counts, other)

\* the step leaves the writers, the counts and the histograms as they are
NothingDone ==
    /\ fastq_file_writers' = fastq_file_writers
    /\ barcode_counts' = barcode_counts
    /\ barcode_mismatches_count' = barcode_mismatches_count

OneSinkOneCount ==
    /\ \E b \in DOMAIN fastq_file_writers : WrittenTo(b)
    /\ \E key \in DOMAIN barcode_counts' : CountedUnder(key)

\* the barcode of the record is as long as every barcode of the sample sheet
AsLongAsKnown(barcode) ==
    \A b \in (DOMAIN barcode_to_sample_mapping) \ {UnknownBarcode} : Len(b) = Len(barcode)

\* C1 as stated: with writers registered for every known barcode and for the unknown
\* barcode, every call of demultiplex_record, of either engine, on a barcode as long
\* as the known ones, writes the reads of the record to the writers of exactly one
\* barcode and adds 1 to exactly one count
C1_EveryRecordOneSinkOneCount ==
    [][(RecordStep /\ SinksRegistered /\ AsLongAsKnown(call'.barcode)) => OneSinkOneCount]_vars

\* C1 as amended: with writers registered for every known barcode and for the unknown
\* barcode, every call of demultiplex_record that returns writes the reads of the
\* record to the writers of exactly one barcode and adds 1 to exactly one count, and
\* a call that raises the error of the matcher writes and counts nothing
C1_ReturnedRecordOneSinkOneCount ==
    [][(RecordStep /\ SinksRegistered) =>
          /\ Returns => OneSinkOneCount
          /\ ~Returns => (status' \in {"ambiguous", "index"} /\ NothingDone)]_vars

\* two records have gone through the mismatch engine, one of them recovered at distance 1
C1_Witness ==
    /\ SinksRegistered
    /\ engine = "FastqMismatchDemultiplexer"
    /\ status = "running"
    /\ Len(yielded) = 2
    /\ \E b \in DOMAIN barcode_mismatches_count :
          /\ b # UnknownBarcode
          /\ CounterGet(barcode_mismatches_count[b], 1) = 1
          /\ CounterGet(barcode_counts, b) = 2

\* the report of a finished run
Report == stats_json(barcode_counts, barcode_mismatches_count, barcode_to_sample_mapping)

Total ==
    SumOver([sample \in DOMAIN Report.DemuxResults |->
                 Report.DemuxResults[sample].NumberReads],
            DOMAIN Report.DemuxResults)
      + Report.Undetermined

\* the DemuxResults list of the report
DemuxResultsList ==
    demux_results(barcode_counts, barcode_mismatches_count, barcode_to_sample_mapping)

\* the barcodes the mapping gives to a sample
BarcodesOf(sample) ==
    { b \in DOMAIN barcode_to_sample_mapping : barcode_to_sample_mapping[b] = sample }

\* the sum of the counts of a set of barcodes
CountOf(B) ==
    SumOver([b \in B |-> CounterGet(barcode_counts, b)], B)

\* C22: stats_json() has exactly one DemuxResults entry per distinct sample id of the
\* mapping, whose IndexMetrics lists exactly the barcodes mapped to the sample and whose
\* NumberReads is the sum of their counts; Undetermined.NumberReads is the sum of the
\* counts of the barcodes that are not keys of the mapping, and UnknownBarcodes.Barcodes
\* is the table of the counts of those barcodes
C22_ReportBySample ==
    LET entries == DemuxResultsList
        unknown == (DOMAIN barcode_counts) \ (DOMAIN barcode_to_sample_mapping)
    IN /\ { entries[i].SampleId : i \in 1..Len(entries) } =
              { barcode_to_sample_mapping[b] : b \in DOMAIN barcode_to_sample_mapping }
       /\ \A i, j \in 1..Len(entries) : i # j => entries[i].SampleId # entries[j].SampleId
       /\ \A i \in 1..Len(entries) :
             LET listed == entries[i].IndexMetrics
             IN /\ { listed[j].IndexSequence : j \in 1..Len(listed) } = BarcodesOf(entries[i].SampleId)
                /\ Len(listed) = Cardinality(BarcodesOf(entries[i].SampleId))
                /\ entries[i].NumberReads = CountOf(BarcodesOf(entries[i].SampleId))
                /\ entries[i].NumberReads = Report.DemuxResults[entries[i].SampleId].NumberReads
       /\ Report.Undetermined = CountOf(unknown)
       /\ DOMAIN Report.UnknownBarcodes = unknown
       /\ \A b \in unknown : Report.UnknownBarcodes[b] = barcode_counts[b]

\* a completed run over a mapping of three barcodes: a sample with two barcodes, each
\* counted once, has the two reads
C22_Witness ==
    /\ status = "done"
    /\ \E i \in 1..Len(DemuxResultsList) :
          /\ Len(DemuxResultsList[i].IndexMetrics) = 2
          /\ DemuxResultsList[i].NumberReads = 2
          /\ \A j \in 1..2 :
                CounterGet(barcode_counts, DemuxResultsList[i].IndexMetrics[j].IndexSequence) = 1
    /\ Cardinality(DOMAIN barcode_to_sample_mapping) = 3

\* the histogram of a known barcode, and the largest distance recorded in it
Histogram(B) == barcode_mismatches_count[B]

LargestDistance(B) ==
    IF DOMAIN Histogram(B) = {} THEN 0
    ELSE CHOOSE d \in DOMAIN Histogram(B) : \A e \in DOMAIN Histogram(B) : e <= d

\* the MismatchCounts of a known barcode in the report
MismatchCounts(B) ==
    Report.DemuxResults[barcode_to_sample_mapping[B]].IndexMetrics[B]

\* C23: after any sequence of engine steps, for every known barcode B the buckets of
\* B's histogram sum to B's count, and the MismatchCounts of B in the report has the
\* keys 0..m, m the largest distance recorded for B (0 if none), with values that sum
\* to B's count
C23_HistogramSumsToCount ==
    \A B \in DOMAIN barcode_to_sample_mapping :
        /\ SumOver(Histogram(B), DOMAIN Histogram(B)) = CounterGet(barcode_counts, B)
        /\ DOMAIN MismatchCounts(B) = 0..LargestDistance(B)
        /\ SumOver(MismatchCounts(B), DOMAIN MismatchCounts(B)) = CounterGet(barcode_counts, B)

\* a known barcode counted twice, once at distance 0 and once at distance 2: the
\* report has the keys 0, 1 and 2 for it, with nothing at 1
C23_Witness ==
    \E B \in DOMAIN barcode_to_sample_mapping :
        /\ CounterGet(barcode_counts, B) = 2
        /\ MismatchCounts(B) = [d \in 0..2 |-> IF d = 1 THEN 0 ELSE 1]

\* C3: at the end of a completed run over the N records of the input, the NumberReads
\* of the DemuxResults entries and of Undetermined add up to N
C3_TotalsConserved ==
    status = "done" => Total = NumRecords("R1")

ExactMode == engine = "FastqDemultiplexer" /\ mismatches = 0

\* in the histograms only the bucket of distance 0 is not zero
OnlyBucketZero ==
    \A b \in DOMAIN barcode_mismatches_count' :
        \A d \in DOMAIN barcode_mismatches_count'[b] :
            d # 0 => barcode_mismatches_count'[b][d] = 0

CountedAtZero(B) ==
    /\ CountedUnder(B)
    /\ B \in DOMAIN barcode_mismatches_count =>
          CounterGet(barcode_mismatches_count'[B], 0) =
              CounterGet(barcode_mismatches_count[B], 0) + 1
    /\ OnlyBucketZero

\* C4 as stated: with mismatches = 0, every record whose barcode B is a key of the
\* mapping is written to the writers of B, B's count grows by 1 and the distance
\* recorded is 0
C4_KnownToOwnSink ==
    [][(RecordStep /\ ExactMode /\ call'.barcode \in DOMAIN barcode_to_sample_mapping) =>
          (WrittenTo(call'.barcode) /\ CountedAtZero(call'.barcode))]_vars

\* C4 as amended: with mismatches = 0, a record whose barcode B is a key of the mapping
\* is written to the writers of B when B has writers, and else to those of the unknown
\* barcode; in both cases B's count grows by 1 at distance 0, and only bucket 0 of a
\* histogram is ever not zero; with writers for neither, KeyError ends the run
C4_KnownToRegisteredSink ==
    [][(RecordStep /\ ExactMode /\ call'.barcode \in DOMAIN barcode_to_sample_mapping) =>
          LET B == call'.barcode
          IN IF B \in DOMAIN fastq_file_writers
             THEN Returns /\ WrittenTo(B) /\ CountedAtZero(B)
             ELSE IF UnknownBarcode \in DOMAIN fastq_file_writers
                  THEN Returns /\ WrittenTo(UnknownBarcode) /\ CountedAtZero(B)
                  ELSE status' = "KeyError" /\ NothingDone]_vars

\* two records of one known barcode are in its writers, both reads of each
C4_Witness ==
    /\ ExactMode
    /\ Len(yielded) = 2
    /\ \E B \in (DOMAIN barcode_to_sample_mapping) \cap (DOMAIN fastq_file_writers) :
          /\ B # UnknownBarcode
          /\ fastq_file_writers[B] = [read_no \in 1..2 |-> << 1, 2 >>]
          /\ CounterGet(barcode_counts, B) = 2
          /\ CounterGet(barcode_mismatches_count[B], 0) = 2

\* the count of B is in the table of the unknown barcodes after the step
CountedUnknown(B) ==
    /\ CountedUnder(B)
    /\ B \in DOMAIN unknown_barcode_counts(barcode_counts', barcode_to_sample_mapping)
    /\ barcode_mismatches_count' = barcode_mismatches_count

\* C5 as stated: with mismatches = 0, every record whose barcode is no key of the
\* mapping is counted under that barcode in the table of the unknown barcodes and is
\* written to the writers of the unknown barcode, which are registered
C5_UnknownToUnknownSink ==
    [][(/\ RecordStep /\ ExactMode
        /\ UnknownBarcode \in DOMAIN fastq_file_writers
        /\ call'.barcode \notin DOMAIN barcode_to_sample_mapping) =>
          (WrittenTo(UnknownBarcode) /\ CountedUnknown(call'.barcode))]_vars

\* C5 as amended: with mismatches = 0, a record whose barcode is no key of the mapping
\* is counted under that barcode in the table of the unknown barcodes; it is written
\* to the writers of the unknown barcode when its barcode has no writers, and to the
\* writers of its barcode when it has; with writers for neither, KeyError ends the run
C5_UnknownToFallbackSink ==
    [][(RecordStep /\ ExactMode /\ call'.barcode \notin DOMAIN barcode_to_sample_mapping) =>
          LET B == call'.barcode
          IN IF B \in DOMAIN fastq_file_writers
             THEN Returns /\ WrittenTo(B) /\ CountedUnknown(B)
             ELSE IF UnknownBarcode \in DOMAIN fastq_file_writers
                  THEN Returns /\ WrittenTo(UnknownBarcode) /\ CountedUnknown(B)
                  ELSE status' = "KeyError" /\ NothingDone]_vars

\* a record of a barcode with neither a row in the sample sheet nor writers is in the
\* writers of the unknown barcode and in the table of the unknown barcodes
C5_Witness ==
    /\ ExactMode
    /\ call.fn = "demultiplex_record"
    /\ call.raised = "none"
    /\ call.barcode \notin (DOMAIN barcode_to_sample_mapping) \cup (DOMAIN fastq_file_writers)
    /\ call.barcode # UnknownBarcode
    /\ Len(yielded) = 1
    /\ fastq_file_writers[UnknownBarcode] = [read_no \in 1..2 |-> << 1 >>]
    /\ unknown_barcode_counts(barcode_counts, barcode_to_sample_mapping)[call.barcode] = 1

\* the barcode whose writers demultiplex_record asks for in the step: the barcode of
\* the record, or in the mismatch engine the barcode it is resolved to
ResolvedBarcode ==
    IF engine = "FastqDemultiplexer" THEN call'.barcode
    ELSE mismatched_barcodes'[call'.barcode][1]

\* a step on a record whose resolved barcode has no writers, the unknown barcode having
NoSinkStep ==
    /\ RecordStep
    /\ call'.raised \notin {"ambiguous", "index"}
    /\ ResolvedBarcode \notin DOMAIN fastq_file_writers
    /\ UnknownBarcode \in DOMAIN fastq_file_writers

\* C11: in either engine, a record whose resolved barcode has no writers is written to
\* the writers of the unknown barcode, and to no others
C11_FallbackToUnknownSink ==
    [][NoSinkStep => WrittenTo(UnknownBarcode)]_vars

\* C12: in the exact engine, a record whose resolved barcode has no writers is counted
\* as unknown: demultiplex_record returns, the one count that grows is in the table of
\* the unknown barcodes, and Undetermined grows by 1
C12_NoSinkCountedUnknown ==
    [][(NoSinkStep /\ ExactMode) =>
          /\ Returns
          /\ \E key \in DOMAIN barcode_counts' :
                /\ CountedUnder(key)
                /\ key \in DOMAIN unknown_barcode_counts(barcode_counts',
                                                          barcode_to_sample_mapping)
          /\ stats_json(barcode_counts', barcode_mismatches_count',
                        barcode_to_sample_mapping).Undetermined
                = Report.Undetermined + 1]_vars

\* C13: every call of demultiplex_record ends after at most one resolution of the
\* barcode and one write per read: none recurses until the stack is used up
C13_RecordStepBounded ==
    status # "RecursionError"

\* the records, by their place in the input, for which demultiplex_record has returned
ReturnedRecords ==
    IF status \in {"running", "done", "Exception"}
    THEN 1..Len(yielded)
    ELSE 1..(Len(yielded) - 1)

IsAscending(seq) ==
    \A i, j \in 1..Len(seq) : i < j => seq[i] < seq[j]

\* the records in the writers of a barcode
RecordsIn(b) ==
    UNION { { fastq_file_writers[b][read_no][i] :
                i \in 1..Len(fastq_file_writers[b][read_no]) } :
            read_no \in DOMAIN fastq_file_writers[b] }

\* C15: the i-th record passed to demultiplex_record is the i-th of the input; every
\* writer holds the records written to it in the order of the input, each once, the
\* writers of the reads of a barcode hold the same records, every record for which
\* demultiplex_record has returned is in the writers of exactly one barcode, and as
\* many records are counted
C15_SinksInInputOrder ==
    /\ \A i \in 1..Len(yielded) : \A h \in DOMAIN yielded[i] : yielded[i][h] = 4 * (i - 1)
    /\ \A b \in DOMAIN fastq_file_writers : \A read_no \in DOMAIN fastq_file_writers[b] :
          /\ IsAscending(fastq_file_writers[b][read_no])
          /\ fastq_file_writers[b][read_no] = fastq_file_writers[b][1]
    /\ \A b, c \in DOMAIN fastq_file_writers : b # c => RecordsIn(b) \cap RecordsIn(c) = {}
    /\ UNION { RecordsIn(b) : b \in DOMAIN fastq_file_writers } = ReturnedRecords
    /\ SumOver(barcode_counts, DOMAIN barcode_counts) = Cardinality(ReturnedRecords)

\* a finished run of two records, both in the writers of one barcode, the first first
C15_Witness ==
    /\ status = "done"
    /\ Len(yielded) = 2
    /\ \E b \in DOMAIN fastq_file_writers :
          fastq_file_writers[b] = [read_no \in 1..2 |-> << 1, 2 >>]

\* C26: the cache maps every observed barcode processed so far to one triple (resolved
\* barcode, distance, count key); resolving a cached barcode again gives the identical
\* triple; an entry once stored never changes, and no entry is removed
C26_CacheStable ==
    [][engine = "FastqMismatchDemultiplexer" =>
          /\ \A b \in DOMAIN mismatched_barcodes :
                /\ b \in DOMAIN mismatched_barcodes'
                /\ mismatched_barcodes'[b] = mismatched_barcodes[b]
          /\ \A b \in DOMAIN mismatched_barcodes' :
                /\ Len(mismatched_barcodes'[b]) = 3
                /\ match_mismatched_barcode(b, barcode_to_sample_mapping, mismatches)
                      = [raised |-> "none", entry |-> mismatched_barcodes'[b]]
          /\ (RecordStep /\ Returns) => call'.barcode \in DOMAIN mismatched_barcodes']_vars

\* two records of one observed barcode that resolves to a known barcode at a distance of
\* at least 1: the second record is served by the one cache entry, and the key counts 2
C26_Witness ==
    /\ engine = "FastqMismatchDemultiplexer"
    /\ status = "running"
    /\ Len(yielded) = 2
    /\ \E b \in DOMAIN mismatched_barcodes :
          /\ DOMAIN mismatched_barcodes = {b}
          /\ mismatched_barcodes[b][2] >= 1
          /\ mismatched_barcodes[b][1] # b
          /\ CounterGet(barcode_counts, mismatched_barcodes[b][3]) = 2

\* the cache entry of the barcode of the record of the step
CachedEntry == mismatched_barcodes'[call'.barcode]

\* the step adds 1 to the bucket of the distance in the histogram of the barcode
BucketGrows(b, distance) ==
    /\ b \in DOMAIN barcode_mismatches_count
    /\ CounterGet(barcode_mismatches_count'[b], distance)
          = CounterGet(barcode_mismatches_count[b], distance) + 1

\* the step writes the record to the writers of the barcode it is resolved to in the
\* cache and counts it under the cached key: a matched record under the known barcode
\* and in its bucket of the cached distance, an unmatched one under the barcode read
ToResolvedSink ==
    /\ WrittenTo(CachedEntry[1])
    /\ CountedUnder(CachedEntry[3])
    /\ CachedEntry[1] # UnknownBarcode =>
          /\ CachedEntry[3] = CachedEntry[1]
          /\ CachedEntry[1] \in DOMAIN barcode_to_sample_mapping
          /\ BucketGrows(CachedEntry[1], CachedEntry[2])
    /\ CachedEntry[1] = UnknownBarcode => CachedEntry[3] = call'.barcode

\* C27: in the mismatch engine, the unknown barcode having writers, every record whose
\* barcode is resolved is written to the writers of the resolved barcode of its cache
\* entry, and counted with the cached key
\* and distance: a matched record adds 1 to the count of the known barcode and to its
\* bucket of the matched distance, an unmatched record goes to the writers of the
\* unknown barcode and adds 1 to the count of the barcode read
C27_WrittenToResolvedSink ==
    [][(RecordStep /\ engine = "FastqMismatchDemultiplexer"
            /\ UnknownBarcode \in DOMAIN fastq_file_writers
            /\ call'.raised \notin {"ambiguous", "index"}) => ToResolvedSink]_vars

\* the barcode has the segments of every known barcode, each of the same length
SameLengthSegments(barcode) ==
    \A b \in (DOMAIN barcode_to_sample_mapping) \ {UnknownBarcode} :
        /\ Len(split(b)) = Len(split(barcode))
        /\ \A ix \in 1..Len(split(b)) : Len(split(b)[ix]) = Len(split(barcode)[ix])

\* a step of the mismatch engine on a record that carries a known barcode
ExactMatchStep ==
    /\ RecordStep
    /\ engine = "FastqMismatchDemultiplexer"
    /\ call'.barcode \in (DOMAIN barcode_to_sample_mapping) \ {UnknownBarcode}
    /\ SameLengthSegments(call'.barcode)

\* what the exact engine makes of the record of the step, from the same writers and counts
ExactEngineStep ==
    demultiplex_record(fastq_file_writers, barcode_counts, barcode_mismatches_count,
                       Len(yielded) + 1, call'.barcode)

\* the step leaves the writers, counts and histograms as the exact engine would
AsExactEngine ==
    /\ (call'.raised = "none") = (ExactEngineStep.raised = "none")
    /\ fastq_file_writers' = ExactEngineStep.writers
    /\ barcode_counts' = ExactEngineStep.counts
    /\ barcode_mismatches_count' = ExactEngineStep.mismatch_counts

\* C28: with barcodes of one length, the unknown barcode having writers, the mismatch
\* engine treats every record that carries a known barcode as the exact engine does:
\* same writers written, same key counted, at distance 0; and as no step of the mismatch
\* engine lowers a count, a known barcode's count is at least that of the exact run
C28_RefinesExactOnMatches ==
    [][engine = "FastqMismatchDemultiplexer" =>
          /\ (ExactMatchStep /\ UnknownBarcode \in DOMAIN fastq_file_writers) =>
                /\ AsExactEngine
                /\ CachedEntry = << call'.barcode, 0, call'.barcode >>
          /\ \A b \in DOMAIN barcode_counts :
                CounterGet(barcode_counts', b) >= barcode_counts[b]]_vars

\* C29: a record whose barcode the matcher finds ambiguous changes nothing: no writer
\* has the record, no count and no bucket of a histogram has changed, and the cache
\* has no entry for the barcode, its other entries being as they were
C29_AmbiguousLeavesState ==
    [][(RecordStep /\ call'.raised = "ambiguous") =>
          /\ NothingDone
          /\ mismatched_barcodes' = mismatched_barcodes
          /\ call'.barcode \notin DOMAIN mismatched_barcodes'
          /\ \A b \in DOMAIN fastq_file_writers' :
                Len(yielded) + 1 \notin RecordsIn(b)']_vars

\* the second record of a run is ambiguous, after a first that was written and counted
C29_Witness ==
    /\ status = "ambiguous"
    /\ call.raised = "ambiguous"
    /\ Len(yielded) = 2
    /\ call.barcode \notin DOMAIN mismatched_barcodes
    /\ Cardinality(DOMAIN mismatched_barcodes) = 1
    /\ \E b \in DOMAIN barcode_counts : barcode_counts[b] = 1
    /\ \E b \in DOMAIN fastq_file_writers : RecordsIn(b) = {1}

\* the records written and counted so far are the first n of the input
WrittenAndCounted(n) ==
    /\ \A i \in 1..n : \E b \in DOMAIN fastq_file_writers : i \in RecordsIn(b)
    /\ \A b \in DOMAIN fastq_file_writers : RecordsIn(b) \subseteq 1..n
    /\ SumOver(barcode_counts, DOMAIN barcode_counts) = n

\* C30: the length-mismatch error is raised in the pass in which a stream has run out,
\* not before: every complete lockstep record has been yielded by then, the engine has
\* written and counted each of them, and nothing is yielded or processed after it
C30_MismatchRaisedAtEnd ==
    [][/\ (status # "Exception" /\ status' = "Exception") =>
             /\ \E h \in DOMAIN pos : nlines[h] - pos[h] < 4
             /\ \E g, h \in DOMAIN pos : nlines[g] # nlines[h]
             /\ pstate' = "error"
             /\ yielded' = yielded
             /\ Len(yielded) = MinRecords
             /\ WrittenAndCounted(MinRecords)
             /\ WrittenAndCounted(MinRecords)'
       /\ status = "Exception" => FALSE]_vars

\* the error has been raised after one record was yielded, written and counted: the
\* second stream holds a second record, the first does not
C30_Witness ==
    /\ status = "Exception"
    /\ pstate = "error"
    /\ MinRecords = 1
    /\ Len(yielded) = 1
    /\ nlines["R2"] = 8
    /\ WrittenAndCounted(1)

(***************************************************************************)
(* DemultiplexResults.summarize_counts, on the counts made by add().       *)
(* A Counter keeps its keys in the order they were first added; that order *)
(* is kept beside the counts. A percentage is held in tenths.              *)
(***************************************************************************)
MaxAdds == 6

SummaryBarcodes ==
    { <<"A", "A">>, <<"B", "B">>, <<"A", "B">>, <<"A">> }

\* sorted(items, key=count, reverse=True): a stable sort, so keys of equal count keep
\* the order they have in the Counter
RECURSIVE SortedByCount(_, _)
SortedByCount(keys, counter) ==
    IF Len(keys) = 0 THEN << >>
    ELSE LET before == SortedByCount(SubSeq(keys, 1, Len(keys) - 1), counter)
             key == keys[Len(keys)]
             ahead == { i \in 1..Len(before) : counter[before[i]] >= counter[key] }
             at == IF ahead = {} THEN 0 ELSE CHOOSE i \in ahead : \A j \in ahead : j <= i
         IN SubSeq(before, 1, at) \o << key >> \o SubSeq(before, at + 1, Len(before))

\* Counter.most_common(n): all the keys by count if n is None, else the n first of
\* them (heapq.nlargest gives what sorted(...)[:n] gives)
most_common(keys, counter, given, n) ==
    LET ordered == SortedByCount(keys, counter)
    IN IF given THEN SubSeq(ordered, 1, Min(n, Len(ordered))) ELSE ordered

\* the percentage cut after its first decimal
round_percent_Floor(count, total) == (1000 * count) \div total

\* round(100. * count / total, 1), in tenths: the nearest tenth; no count and total
\* of the model are half way between two tenths
round_percent(count, total) == (2000 * count + total) \div (2 * total)

\* summarize_counts with the total taken over the chosen counter
summarize_counts_TotalOfSet(counts, mapping, keys, barcode_set, given, n_values) ==
    LET counter == IF barcode_set = "known" THEN known_barcode_counts(counts, mapping)
                   ELSE IF barcode_set = "unknown" THEN unknown_barcode_counts(counts, mapping)
                   ELSE counts
        total == SumOver(counter, DOMAIN counter)
        common == most_common(SelectSeq(keys, LAMBDA b : b \in DOMAIN counter),
                              counter, given, n_values)
    IN [i \in 1..Len(common) |->
           << common[i], counter[common[i]], round_percent(counter[common[i]], total) >>]

\* summarize_counts(barcode_set, n_values); keys is the order of the keys of
\* barcode_counts, which the Counters of the known and of the unknown barcodes keep
summarize_counts(counts, mapping, keys, barcode_set, given, n_values) ==
    LET total == SumOver(counts, DOMAIN counts)
        counter == IF barcode_set = "known" THEN known_barcode_counts(counts, mapping)
                   ELSE IF barcode_set = "unknown" THEN unknown_barcode_counts(counts, mapping)
                   ELSE counts
        common == most_common(SelectSeq(keys, LAMBDA b : b \in DOMAIN counter),
                              counter, given, n_values)
    IN [i \in 1..Len(common) |->
           << common[i], counter[common[i]], round_percent(counter[common[i]], total) >>]

\* DemultiplexResults(barcode_to_sample_mapping)
InitSummary ==
    /\ \E K \in SUBSET { <<"A", "A">>, <<"B", "B">> } :
          barcode_to_sample_mapping = [b \in K |-> "S1"]
    /\ barcode_counts = EmptyMap
    /\ barcode_mismatches_count = [b \in DOMAIN barcode_to_sample_mapping |-> EmptyMap]
    /\ call = [fn |-> "__init__", keys |-> << >>]
    /\ mismatches = 0
    /\ engine = "none"
    /\ fastq_file_writers = EmptyMap
    /\ mismatched_barcodes = EmptyMap
    /\ status = "none"
    /\ nlines = NoFiles
    /\ pos = NoFiles
    /\ pstate = "none"
    /\ yielded = << >>
    /\ cli = NoCli

\* results.add(barcode)
AddBarcode ==
    /\ SumOver(barcode_counts, DOMAIN barcode_counts) < MaxAdds
    /\ \E barcode \in SummaryBarcodes :
          LET a == add(barcode_counts, barcode_mismatches_count, barcode, 1, 0)
          IN /\ barcode_counts' = a.counts
             /\ barcode_mismatches_count' = a.mismatch_counts
             /\ call' = [fn |-> "add",
                         keys |-> IF barcode \in DOMAIN barcode_counts THEN call.keys
                                  ELSE Append(call.keys, barcode)]
    /\ UNCHANGED << barcode_to_sample_mapping, mismatches, engine, fastq_file_writers,
                    mismatched_barcodes, status, nlines, pos, pstate, yielded, cli >>

\* results.summarize_counts(barcode_set, n_values), n_values given or left None
SummarizeCounts ==
    /\ call.fn = "add"
    /\ \E barcode_set \in { "all", "known", "unknown" }, given \in BOOLEAN, n_values \in 0..MaxAdds :
          /\ given \/ n_values = 0
          /\ call' = [fn |-> "summarize_counts",
                      keys |-> call.keys,
                      barcode_set |-> barcode_set,
                      given |-> given,
                      n_values |-> n_values,
                      result |-> summarize_counts(barcode_counts, barcode_to_sample_mapping,
                                                  call.keys, barcode_set, given, n_values)]
    /\ UNCHANGED << barcode_to_sample_mapping, mismatches, engine, fastq_file_writers,
                    barcode_counts, barcode_mismatches_count, mismatched_barcodes,
                    status, nlines, pos, pstate, yielded, cli >>

NextSummary == AddBarcode \/ SummarizeCounts

SpecSummary == InitSummary /\ [][NextSummary]_vars

\* the barcodes of the chosen set that have a count
SummarySet ==
    IF call.barcode_set = "known"
    THEN (DOMAIN barcode_counts) \cap (DOMAIN barcode_to_sample_mapping)
    ELSE IF call.barcode_set = "unknown"
    THEN (DOMAIN barcode_counts) \ (DOMAIN barcode_to_sample_mapping)
    ELSE DOMAIN barcode_counts

\* when a barcode was first counted
FirstSeen(b) == CHOOSE i \in 1..Len(call.keys) : call.keys[i] = b

\* barcode b comes before barcode c: a higher count, or the same count and seen first
RanksBefore(b, c) ==
    \/ barcode_counts[b] > barcode_counts[c]
    \/ barcode_counts[b] = barcode_counts[c] /\ FirstSeen(b) < FirstSeen(c)

\* p tenths of a percent is 100 * count / total rounded to one decimal
IsPercentOf(p, count, total) ==
    /\ 2 * (p * total - 1000 * count) <= total
    /\ 2 * (1000 * count - p * total) <= total

\* C20: summarize_counts(subset, top_n) returns the tuples (barcode, count, percent) of
\* the barcodes of the subset (all, known or unknown), sorted by count descending with
\* ties in first-seen order, truncated to top_n if given; percent is 100 * count / total
\* rounded to one decimal, total being the total over all barcodes whatever the subset
C20_SummaryOrderedOfGrandTotal ==
    call.fn = "summarize_counts" =>
        LET result == call.result
            total == SumOver(barcode_counts, DOMAIN barcode_counts)
            listed == { result[i][1] : i \in 1..Len(result) }
        IN /\ Len(result) = IF call.given THEN Min(call.n_values, Cardinality(SummarySet))
                            ELSE Cardinality(SummarySet)
           /\ listed \subseteq SummarySet
           /\ \A i \in 1..Len(result) :
                 /\ result[i][2] = barcode_counts[result[i][1]]
                 /\ IsPercentOf(result[i][3], result[i][2], total)
           /\ \A i, j \in 1..Len(result) : i < j => RanksBefore(result[i][1], result[j][1])
           /\ \A b \in listed : \A c \in SummarySet \ listed : RanksBefore(b, c)

\* the top 2 of three unknown barcodes, counted once each after a known barcode was:
\* a tie kept in first-seen order, a barcode cut off, and 25.0 percent of the total of 4
C20_Witness ==
    /\ call.fn = "summarize_counts"
    /\ call.barcode_set = "unknown"
    /\ call.given
    /\ call.n_values = 2
    /\ call.keys = << <<"B", "B">>, <<"A">>, <<"A", "A">>, <<"A", "B">> >>
    /\ DOMAIN barcode_to_sample_mapping = { <<"A", "A">> }
    /\ call.result = << << <<"B", "B">>, 1, 250 >>, << <<"A">>, 1, 250 >> >>

\* the sum of the percentages of a summary, in tenths
RECURSIVE SumPercent(_)
SumPercent(result) ==
    IF Len(result) = 0 THEN 0
    ELSE result[Len(result)][3] + SumPercent(SubSeq(result, 1, Len(result) - 1))

\* a summary of all the barcodes, none cut off
SummaryOfAll ==
    /\ call.fn = "summarize_counts"
    /\ call.barcode_set = "all"
    /\ ~call.given

\* C21 as stated: the percentages summarize_counts returns over all barcodes sum to at
\* most 100.0
C21_PercentSumAtMost100 ==
    SummaryOfAll => SumPercent(call.result) <= 1000

\* C21, with the rounding of each percentage counted: the percentages over all
\* barcodes sum to 100.0 give or take 0.05 for every barcode
C21_PercentSumNear100 ==
    SummaryOfAll =>
        /\ 2 * (SumPercent(call.result) - 1000) <= Len(call.result)
        /\ 2 * (1000 - SumPercent(call.result)) <= Len(call.result)

\* three barcodes counted 1, 1 and 4 times: 16.7, 16.7 and 66.7 percent, 100.1 in all
C21_Witness ==
    /\ SummaryOfAll
    /\ Len(call.result) = 3
    /\ SumPercent(call.result) = 1001

(***************************************************************************)
(* A FastqFileWriter and the parser on the file it wrote: records are      *)
(* written, the handle is closed, and the file is read by fastq_records(). *)
(***************************************************************************)
\* "\n".join(list)
RECURSIVE join_newline(_)
join_newline(parts) ==
    IF Len(parts) = 0 THEN << >>
    ELSE IF Len(parts) = 1 THEN parts[1]
    ELSE parts[1] \o << "\n" >> \o join_newline(Tail(parts))

\* FastqFileWriter.write_record: the text written for a record
write_record(record) == join_newline(record \o << << >> >>)

\* iteration over a file opened in text mode: the lines, each with its "\n", the last
\* one without if the text does not end in one
RECURSIVE iter_lines(_)
iter_lines(text) ==
    IF Len(text) = 0 THEN << >>
    ELSE IF \A i \in 1..Len(text) : text[i] # "\n" THEN << text >>
    ELSE LET i == CHOOSE j \in 1..Len(text) :
                      text[j] = "\n" /\ \A h \in 1..(j - 1) : text[h] # "\n"
         IN << SubSeq(text, 1, i) >> \o iter_lines(SubSeq(text, i + 1, Len(text)))

\* header lines and quality lines to write: plain, with a space inside, with a space
\* at an end, with a line break inside, empty, and blank
WrittenHeaders ==
    { << "@", "A" >>, << "@", " ", "A" >>, << "@", "A", " " >>, << " ", "@" >>,
      << "@", "\n", "A" >> }

WrittenQualities == { << "#" >>, << >>, << " " >> }

WrittenRecords ==
    { << hdr, << "A" >>, << "+" >>, qual >> : hdr \in WrittenHeaders, qual \in WrittenQualities }

\* FastqFileWriter(fastq_file): the file is opened for writing, and the records to
\* write are the caller's
InitRoundTrip ==
    /\ \E n \in 0..MaxRecords : \E records \in [1..n -> WrittenRecords] :
          call = [fn |-> "write_record", records |-> records, written |-> 0]
    /\ fastq_file_writers = [fastq_file |-> << >>, fastq_file_handle |-> "open"]
    /\ nlines = NoFiles
    /\ pos = NoFiles
    /\ pstate = "none"
    /\ yielded = << >>
    /\ barcode_to_sample_mapping = EmptyMap
    /\ mismatches = 0
    /\ engine = "none"
    /\ barcode_counts = EmptyMap
    /\ barcode_mismatches_count = EmptyMap
    /\ mismatched_barcodes = EmptyMap
    /\ status = "none"
    /\ cli = NoCli

\* write_record of the next record
WriteRecord ==
    /\ fastq_file_writers.fastq_file_handle = "open"
    /\ call.written < Len(call.records)
    /\ fastq_file_writers' =
           [fastq_file_writers EXCEPT
               !.fastq_file = @ \o write_record(call.records[call.written + 1])]
    /\ call' = [call EXCEPT !.written = @ + 1]
    /\ UNCHANGED << barcode_to_sample_mapping, mismatches, engine, barcode_counts,
                    barcode_mismatches_count, mismatched_barcodes, status, nlines, pos,
                    pstate, yielded, cli >>

\* close_handle after the last record, and a parser made for the file
CloseHandle ==
    /\ fastq_file_writers.fastq_file_handle = "open"
    /\ call.written = Len(call.records)
    /\ fastq_file_writers' = [fastq_file_writers EXCEPT !.fastq_file_handle = "closed"]
    /\ nlines' = [h \in {"R1"} |-> Len(iter_lines(fastq_file_writers.fastq_file))]
    /\ pos' = [h \in {"R1"} |-> 0]
    /\ pstate' = "open"
    /\ call' = [call EXCEPT !.fn = "fastq_records"]
    /\ UNCHANGED << barcode_to_sample_mapping, mismatches, engine, barcode_counts,
                    barcode_mismatches_count, mismatched_barcodes, status, yielded, cli >>

\* one next() of fastq_records() on the file: the read it yields is the four lines
\* from where the handle is, stripped
ReadRecord ==
    /\ fastq_file_writers.fastq_file_handle = "closed"
    /\ pstate = "open"
    /\ LET r == fastq_records(pos, nlines)
           lines == iter_lines(fastq_file_writers.fastq_file)
       IN /\ pos' = r.pos
          /\ pstate' = IF r.outcome = "yield" THEN "open" ELSE r.outcome
          /\ yielded' = IF r.outcome = "yield"
                        THEN Append(yielded, record_lines([i \in 1..4 |-> lines[pos["R1"] + i]]))
                        ELSE yielded
    /\ UNCHANGED << barcode_to_sample_mapping, mismatches, engine, fastq_file_writers,
                    barcode_counts, barcode_mismatches_count, mismatched_barcodes,
                    status, nlines, call, cli >>

NextRoundTrip == WriteRecord \/ CloseHandle \/ ReadRecord

SpecRoundTrip == InitRoundTrip /\ [][NextRoundTrip]_vars

\* the file has been read to its end
ReadBack == pstate \in { "exhausted", "error" }

\* no line of the records written has a line break in it
LinesWritten ==
    \A n \in 1..Len(call.records) : \A i \in 1..4 :
        \A j \in 1..Len(call.records[n][i]) : call.records[n][i][j] \notin { "\n", "\r" }

\* C19: records of 4 lines each written through a FastqFileWriter, the writer closed
\* and the file read by the parser, come back the same: the same 4 lines each and in
\* the same order
C19_RoundTripIdentical ==
    (ReadBack /\ LinesWritten) => (pstate = "exhausted" /\ yielded = call.records)

(***************************************************************************)
(* The command-line entry point, fastq_demux.demultiplex                   *)
(***************************************************************************)
MaxRows == 2

\* the pieces of a row of the sample sheet: the sample id, then one index or two;
\* a row of one piece is not a row of a sample
SampleSheetRows ==
    { << s, << "A", "A" >> >> : s \in Samples }
        \cup { << s, << "B", "B" >> >> : s \in Samples }
        \cup { << s, << "A", "A" >>, << "B", "B" >> >> : s \in Samples }
        \cup { << "S1" >> }

SampleSheets ==
    UNION { [1..n -> SampleSheetRows] : n \in 0..MaxRows }

\* SampleSheetParser.get_barcode_to_sample_mapping: the indexes of a row joined by
\* "+" are the key of its sample id, a later row replacing an earlier one
RECURSIVE get_barcode_to_sample_mapping(_)
get_barcode_to_sample_mapping(rows) ==
    IF Len(rows) = 0 THEN EmptyMap
    ELSE LET before == get_barcode_to_sample_mapping(SubSeq(rows, 1, Len(rows) - 1))
             pcs == rows[Len(rows)]
             barcode == join(SubSeq(pcs, 2, Len(pcs)))
         IN IF Len(pcs) > 1
            THEN [b \in (DOMAIN before) \cup {barcode} |->
                     IF b = barcode THEN pcs[1] ELSE before[b]]
            ELSE before

\* fastq_file_writers_from_mapping: a list of writers, one per read, for every key
fastq_file_writers_from_mapping(mapping, is_single_end) ==
    [b \in DOMAIN mapping |->
        [read_no \in 1..(IF is_single_end THEN 1 ELSE 2) |-> << >>]]

\* the options click declares for the command, and --mismatches, which it does not
DeclaredOptions ==
    { "R1", "R2", "I1", "I2", "samplesheet", "prefix", "unknown-barcode", "outdir",
      "no-gzip-compression" }

\* _validate_index_files, the callback of --I2: click calls it, --I2 given or not, when
\* it gets to the option, which is after the options given before it on the command
\* line, and after all the options given if --I2 is not
_validate_index_files(options, i1_first) ==
    IF "I2" \in options /\ ("I1" \notin options \/ ~i1_first) THEN "UsageError" ELSE "none"

\* the files demultiplex() is called with: the value of an option with a callback is
\* what the callback returns, and _validate_index_files returns nothing
cli_files(options) == (options \cap { "R1", "R2", "I1" })

\* FastqFileWriter.__init__ / open_handle of every writer of the mapping
open_handle(writers) ==
    { << b, read_no >> : b \in DOMAIN writers, read_no \in 1..2 } \cap
        UNION { { << b, read_no >> : read_no \in DOMAIN writers[b] } : b \in DOMAIN writers }

\* the command line: the files, --I1 before --I2 or after it, the sample sheet, and
\* --mismatches=k or no such option; the index files are as long as R1
InitCli ==
    /\ \E F \in InputFiles :
          nlines \in { n \in [F -> { 4 * m : m \in 0..MaxRecords }] :
                          \A h \in F \cap { "I1", "I2" } : n[h] = n["R1"] }
    /\ pos = [h \in DOMAIN nlines |-> 0]
    /\ \E sheet \in SampleSheets, k \in 0..MaxMismatches, given \in BOOLEAN,
          i1_first \in BOOLEAN :
          /\ i1_first \/ { "I1", "I2" } \subseteq DOMAIN nlines
          /\ cli = [stage |-> "args",
                    samplesheet |-> sheet,
                    options |-> {"samplesheet"} \cup (DOMAIN nlines)
                                    \cup (IF given THEN {"mismatches"} ELSE {}),
                    i1_first |-> i1_first,
                    mismatches |-> IF given THEN k ELSE 0,
                    open_handles |-> {},
                    stats |-> EmptyMap]
    /\ barcode_to_sample_mapping = EmptyMap
    /\ mismatches = 0
    /\ engine = "none"
    /\ fastq_file_writers = EmptyMap
    /\ barcode_counts = EmptyMap
    /\ barcode_mismatches_count = EmptyMap
    /\ mismatched_barcodes = EmptyMap
    /\ status = "none"
    /\ pstate = "open"
    /\ yielded = << >>
    /\ call = NoCall

\* click parses the options, then the body of demultiplex() up to the construction
\* of the demultiplexer
CliDemultiplex ==
    /\ cli.stage = "args"
    /\ IF \/ ~(cli.options \subseteq DeclaredOptions)
          \/ _validate_index_files(cli.options, cli.i1_first) = "UsageError"
       THEN /\ status' = "UsageError"
            /\ cli' = [cli EXCEPT !.stage = "exit"]
            /\ UNCHANGED << barcode_to_sample_mapping, mismatches, engine,
                            fastq_file_writers, barcode_mismatches_count, nlines, pos >>
       ELSE LET sheet == get_barcode_to_sample_mapping(cli.samplesheet)
                mapping == [b \in (DOMAIN sheet) \cup {UnknownBarcode} |->
                               IF b = UnknownBarcode THEN UnknownSample ELSE sheet[b]]
            IN /\ barcode_to_sample_mapping' = mapping
               /\ fastq_file_writers' =
                      fastq_file_writers_from_mapping(mapping, "R2" \notin cli.options)
               /\ barcode_mismatches_count' = [b \in DOMAIN mapping |-> EmptyMap]
               /\ engine' = "FastqDemultiplexer"
               /\ mismatches' = 0
               /\ status' = "running"
               /\ nlines' = [h \in cli_files(cli.options) |-> nlines[h]]
               /\ pos' = [h \in cli_files(cli.options) |-> 0]
               /\ cli' = [cli EXCEPT !.stage = "run",
                                     !.open_handles = open_handle(fastq_file_writers')]
    /\ UNCHANGED << barcode_counts, mismatched_barcodes, pstate, yielded, call >>

\* after demultiplex() of the engine: the report is written and the command returns,
\* or the exception of the run ends the command
CliExit ==
    /\ cli.stage = "run"
    /\ status # "running"
    /\ cli' = [cli EXCEPT !.stage = "exit",
                          !.stats = IF status = "done" THEN Report ELSE EmptyMap]
    /\ UNCHANGED << barcode_to_sample_mapping, mismatches, engine, fastq_file_writers,
                    barcode_counts, barcode_mismatches_count, mismatched_barcodes,
                    status, nlines, pos, pstate, yielded, call >>

NextCli == CliDemultiplex \/ DemultiplexRecord \/ DemultiplexEnd \/ CliExit

SpecCli == InitCli /\ [][NextCli]_vars

\* the exit code of the command
exit_code ==
    IF status = "done" THEN 0 ELSE IF status = "UsageError" THEN 2 ELSE 1

\* C10: the command run with a mismatch tolerance of 1 selects the mismatch-tolerant
\* engine and completes: it does not end in an error, and the run is one of
\* FastqMismatchDemultiplexer with mismatches = 1
C10_MismatchEngineSelected ==
    (cli.stage = "exit" /\ "mismatches" \in cli.options /\ cli.mismatches = 1) =>
        /\ exit_code = 0
        /\ engine = "FastqMismatchDemultiplexer"
        /\ mismatches = 1

\* C14: every sink opened at setup is closed once the run has completed or has failed:
\* no sink is still open when the entry point returns or aborts
C14_SinksClosedAtExit ==
    cli.stage = "exit" => cli.open_handles = {}

\* C18: the command given R1 with an I1 and an I2 index file, --I1 before --I2, runs
\* the dual-index strategy: both index streams are read in lockstep with the reads,
\* and the barcode of each record is the I1 sequence line, "+", the I2 sequence line,
\* as the dual-index barcodes of the sample sheet are
C18_DualIndexStrategyUsed ==
    (/\ cli.stage \in { "run", "exit" }
     /\ { "I1", "I2" } \subseteq cli.options
     /\ cli.i1_first
     /\ \E b \in DOMAIN barcode_to_sample_mapping : Len(split(b)) = 2
     /\ call.fn = "demultiplex_record") =>
        /\ create_fastq_file_parser(DOMAIN nlines) = "FastqFileParserI2"
        /\ "I2" \in DOMAIN pos
        /\ pos["I2"] = pos["I1"]
        /\ Len(split(call.barcode)) = 2

====
